---- MODULE Spec2Model ----
(***************************************************************************)
(* A model of PingContext::ping (src/ping/src/ping.rs): the session that   *)
(* sends ICMP echo probes paced by SIGALRM, receives replies with a        *)
(* blocking recvmsg, accumulates round-trip statistics and prints the      *)
(* summary.  The two signal handlers run asynchronously to the main loop   *)
(* and talk to it only through the atomics ALARM and INT.                  *)
(*                                                                         *)
(* Time is counted in ticks (one tick is one millisecond of the printed    *)
(* round-trip times).  The interval timer expires every `interval` ticks   *)
(* after it was armed.                                                     *)
(***************************************************************************)
EXTENDS Integers, Sequences, FiniteSets, TLC

\* ------------------------------------------------------------ bounds
\* Ticks the clock may advance during one session.
MaxTime == 2
\* Largest reply-count limit tried.
MaxCount == 2
\* Datagrams that are not the reply to one of this session's probes
\* (malformed, foreign or duplicate) the network may deliver.
MaxForeign == 1

\* ------------------------------------------------------------ constants
\* u16::MAX, the width of transmit_count, receive_count and loss_count.
U16Max == 65535
\* u128::MAX, the initial min_delta.  Held as the largest integer the model
\* checker represents; every delta of the model is far below it.
U128Max == 2147483647

None == <<>>
Some(x) == <<x>>
Get(o) == o[1]

VARIABLES
    count,              \* self.count: Option<NonZeroU16>
    interval,           \* self.interval, in ticks
    deadline,           \* self.deadline: Option<Duration>, in ticks
    pc,                 \* the position of ping()
    ret,                \* how ping() ended: running, ok, err, exit1, panic
    handlers,           \* TRUE once both sigaction calls were made
    timer,              \* the Timer handle: none, armed, dropped
    start,              \* Instant taken right after the timer was armed
    now,                \* the clock
    ALARM,              \* static ALARM: AtomicBool
    INT,                \* static INT: AtomicBool
    intr,               \* a signal was delivered during the pending recvmsg
    transmit_count,
    receive_count,
    min_delta,
    max_delta,
    sum_delta,
    sum_squared_delta,
    res,                \* the datagram the last recvmsg returned, if any
    pending,            \* sequence numbers whose reply is still in flight
    n_foreign,          \* datagrams delivered that answer no probe
    sendLog,            \* history: every send_packet call, [seq, raw]
    n_sent,             \* history: the number of send_packet calls
    out,                \* everything printed on stdout, line by line
    overlap,            \* history: a probe was sent while an earlier one
                        \* had not been answered yet
    recv_after_int,     \* history: recvmsg calls that returned since INT
                        \* was set
    calc                \* the summary arithmetic applied to given counts

stats == <<receive_count, min_delta, max_delta, sum_delta, sum_squared_delta>>
config == <<count, interval, deadline>>
vars == <<count, interval, deadline, pc, ret, handlers, timer, start, now,
          ALARM, INT, intr, transmit_count, receive_count, min_delta,
          max_delta, sum_delta, sum_squared_delta, res, pending, n_foreign,
          sendLog, n_sent, out, overlap, recv_after_int, calc>>

Min(a, b) == IF a <= b THEN a ELSE b
Max(a, b) == IF a >= b THEN a ELSE b

\* ------------------------------------------------------------ datagrams
\* A received datagram, as far as packet::parse looks at it: whether it
\* holds a whole ICMP header, whether its checksum verifies, its ICMP type
\* and its sequence number.
Reply(s) == [len_ok |-> TRUE, ck |-> TRUE, type |-> "echo-reply", seq |-> s]

\* Sequence numbers a datagram from elsewhere may carry: a duplicate of
\* probe 0, and a number no probe of the session reaches.
ForeignSeqs == {0, MaxTime + 2}

\* Datagrams that are not the reply to a probe of this session: a truncated
\* one, a corrupted one, somebody's echo request, and well-formed replies.
Foreign ==
    {[len_ok |-> FALSE, ck |-> TRUE, type |-> "echo-reply", seq |-> 0],
     [len_ok |-> TRUE, ck |-> FALSE, type |-> "echo-reply", seq |-> 0],
     [len_ok |-> TRUE, ck |-> TRUE, type |-> "echo-request", seq |-> 0]}
    \cup {Reply(s) : s \in ForeignSeqs}

\* packet::parse: None unless the datagram is long enough, its checksum
\* verifies and it is an echo reply.
parse(d) ==
    IF ~d.len_ok \/ ~d.ck \/ d.type # "echo-reply"
    THEN None
    ELSE Some([seq |-> d.seq])

\* ------------------------------------------------------------ u16 arithmetic
\* The outcomes of a + 1 on u16: Some(value), or None for a panic.  A build
\* with overflow checks panics on overflow, one without wraps.
Inc16(a) == IF a + 1 > U16Max THEN {Some(0), None} ELSE {Some(a + 1)}

\* The outcomes of a * b on u16.
Mul16(a, b) ==
    IF a * b > U16Max THEN {Some((a * b) % (U16Max + 1)), None} ELSE {Some(a * b)}

\* a / b on u16: division by zero panics in every build.
Div16(a, b) == IF b = 0 THEN None ELSE Some(a \div b)

\* ------------------------------------------------------------ send_packet
RawSend == {"Ok", "NetworkUnreachable", "PermissionDenied", "Other"}

\* A send_packet that hands every failure of write_ping on.
SendPacketRaw(raw) == raw

\* send_packet: what write_ping returned, with NetworkUnreachable turned
\* into Ok(()).
SendPacket(raw) == IF raw = "NetworkUnreachable" THEN "Ok" ELSE raw

\* ------------------------------------------------------------ statistics
\* A loop that never stops on its reply count.
ContAlways == TRUE

\* A continuation test that is off by one.
ContInclusive == IF count = None THEN TRUE ELSE receive_count <= Get(count)

\* The continuation test of the loop: no count limit, or fewer replies
\* received than the limit.
Cont == IF count = None THEN TRUE ELSE receive_count < Get(count)

\* The round-trip time of a reply carrying sequence number seq, received at
\* time t: the time since start + interval * seq (duration_since saturates
\* at zero).
Delta(t, seq) == Max(0, t - (start + interval * seq))

\* Accumulators with min and max mixed up.
RecordSwapped(mn, mx, sm, sq, delta) ==
    [min |-> Max(mn, delta), max |-> Min(mx, delta),
     sum |-> sm + delta, sq |-> sq + delta * delta]

\* Lines 171-174: the accumulators after one more sample.
Record(mn, mx, sm, sq, delta) ==
    [min |-> Min(mn, delta), max |-> Max(mx, delta),
     sum |-> sm + delta, sq |-> sq + delta * delta]

\* Lines 180-184.
LossCount(tx, rx) == IF rx <= tx THEN tx - rx ELSE 0

\* Line 185: the outcomes of loss_count * 100 / transmit_count on u16.
LossPercentage(loss, tx) ==
    {IF m = None THEN None ELSE Div16(Get(m), tx) : m \in Mul16(loss, 100)}

\* ------------------------------------------------------------ printing
Line(kind, v) == [line |-> kind, v |-> v]
Printed(kind) == \E i \in 1..Len(out) : out[i].line = kind

\* Lines 187-204: the summary block.  The mean is the quotient sum/received
\* and the spread the square root of the quotient sum_squared/received; both
\* quotients are kept exact, as <<numerator, denominator>>.
SummaryLines(tx, rx, pct, elapsed, mn, mx, sm, sq) ==
    <<Line("stats", <<tx, rx, pct, elapsed>>)>>
    \o (IF rx > 0
        THEN <<Line("rtt", [min |-> mn, avg |-> <<sm, rx>>, max |-> mx,
                            mdev_squared |-> <<sq, rx>>])>>
        ELSE <<>>)

\* ------------------------------------------------------------ initial state
Counts == {None} \cup {Some(c) : c \in 1..MaxCount}
Intervals == {1, 2}
Deadlines == {None, Some(1)}
IdleCalc == [at |-> "idle", tx |-> 0, rx |-> 0, loss |-> 0, pct |-> None]

Init ==
    /\ count \in Counts
    /\ interval \in Intervals
    /\ deadline \in Deadlines
    /\ pc = "resolve"
    /\ ret = "running"
    /\ handlers = FALSE
    /\ timer = "none"
    /\ start = 0
    /\ now = 0
    /\ ALARM = FALSE
    /\ INT = FALSE
    /\ intr = FALSE
    /\ transmit_count = 0
    /\ receive_count = 0
    /\ min_delta = U128Max
    /\ max_delta = 0
    /\ sum_delta = 0
    /\ sum_squared_delta = 0
    /\ res = None
    /\ pending = {}
    /\ n_foreign = 0
    /\ sendLog = <<>>
    /\ n_sent = 0
    /\ out = <<>>
    /\ overlap = FALSE
    /\ recv_after_int = 0
    /\ calc = IdleCalc

\* ------------------------------------------------------------ signals
alarm_handler == ALARM' = TRUE

int_handler == INT' = TRUE

\* A signal delivered while the main thread is blocked in recvmsg makes the
\* call return Interrupted (the handlers are installed without SA_RESTART).
Wake == intr' = (intr \/ pc = "recv")

\* The clock advances by one tick; the interval timer, once armed, expires
\* every `interval` ticks and the kernel then runs the SIGALRM handler.  A
\* SIGALRM raised while no handler is installed has its default effect: the
\* process is killed.
Tick ==
    /\ pc # "done"
    /\ timer = "armed"
    /\ now < MaxTime
    /\ now' = now + 1
    /\ IF (now' - start) % interval = 0
       THEN IF handlers
            THEN alarm_handler /\ Wake /\ UNCHANGED <<pc, ret>>
            ELSE pc' = "done" /\ ret' = "killed" /\ UNCHANGED <<ALARM, intr>>
       ELSE UNCHANGED <<ALARM, intr, pc, ret>>
    /\ UNCHANGED <<config, handlers, timer, start, INT, transmit_count,
                   stats, res, pending, n_foreign, sendLog,
                   n_sent, out, overlap,
                   recv_after_int, calc>>

\* The user sends SIGINT.
SigInt ==
    /\ pc # "done"
    /\ handlers
    /\ int_handler
    /\ Wake
    /\ UNCHANGED <<config, pc, ret, handlers, timer, start, now, ALARM,
                   transmit_count, stats, res, pending, n_foreign, sendLog,
                   n_sent, out,
                   overlap, recv_after_int, calc>>

\* ------------------------------------------------------------ ping()
\* How the function is left: returning drops _timer, exit(1) does not run
\* destructors.
Leave(how) ==
    /\ pc' = "done"
    /\ ret' = how
    /\ timer' = IF how = "exit1" \/ timer = "none" THEN timer ELSE "dropped"

\* An initialisation that arms the timer before it installs the handlers.
InitOrderTimerFirst == <<"resolve", "timer", "sigaction", "send0">>

\* Lines 75-127: the order of the steps of ping() up to the first probe.
InitOrder == <<"resolve", "sigaction", "timer", "send0">>

\* The step that follows step p.
After(p) ==
    InitOrder[(CHOOSE i \in 1..Len(InitOrder) : InitOrder[i] = p) + 1]

\* Line 75: addr::parse(&self.dest)?
Resolve ==
    /\ pc = "resolve"
    /\ \/ pc' = After("resolve") /\ UNCHANGED <<ret, timer>>
       \/ Leave("err")
    /\ UNCHANGED <<config, handlers, start, now, ALARM, INT, intr,
                   transmit_count, stats, res, pending, n_foreign, sendLog,
                   n_sent, out,
                   overlap, recv_after_int, calc>>

\* Lines 77-99: both sigaction calls.
Sigaction ==
    /\ pc = "sigaction"
    /\ handlers' = TRUE
    /\ pc' = After("sigaction")
    /\ UNCHANGED <<config, ret, timer, start, now, ALARM, INT, intr,
                   transmit_count, stats, res, pending, n_foreign, sendLog,
                   n_sent, out,
                   overlap, recv_after_int, calc>>

\* Lines 101-115: the timer is armed, the start instant taken, the counters
\* and accumulators initialised.
StartTimer ==
    /\ pc = "timer"
    /\ timer' = "armed"
    /\ start' = now
    /\ pc' = After("timer")
    /\ UNCHANGED <<config, ret, handlers, now, ALARM, INT, intr, transmit_count,
                   stats, res, pending, n_foreign, sendLog,
                   n_sent, out, overlap,
                   recv_after_int, calc>>

\* A sequence number taken from the wrong counter.
NextSeqReceived == receive_count

\* The sequence number handed to send_packet (lines 118 and 148).
NextSeq == transmit_count

\* A first probe whose permission-denied failure is returned like any other.
FirstProbeNoExit(r) == IF r = "Ok" THEN "go" ELSE "err"

\* Lines 119-126: what becomes of the first probe's result.
FirstProbe(r) ==
    IF r = "PermissionDenied" THEN "exit1" ELSE IF r = "Ok" THEN "go" ELSE "err"

\* Line 148: what becomes of a later probe's result (the ? operator).
LaterProbe(r) == IF r = "Ok" THEN "go" ELSE "err"

\* The network takes a probe only when write_ping succeeded.
Sent(raw) ==
    /\ sendLog' = Append(sendLog, [seq |-> NextSeq, raw |-> raw])
    /\ n_sent' = n_sent + 1
    /\ pending' = IF raw = "Ok" THEN pending \cup {NextSeq} ELSE pending

\* transmit_count += 1 (lines 127 and 149), then on to `to`.
Counted(to) ==
    \E v \in Inc16(transmit_count) :
        IF v = None
        THEN Leave("panic") /\ UNCHANGED transmit_count
        ELSE transmit_count' = Get(v) /\ pc' = to /\ UNCHANGED <<ret, timer>>

\* Lines 117-134: the first probe, then the PING header line.
Send0 ==
    /\ pc = "send0"
    /\ \E raw \in RawSend :
        /\ Sent(raw)
        /\ LET how == FirstProbe(SendPacket(raw))
           IN  IF how = "go"
               THEN /\ Counted("check")
                    /\ out' = IF pc' = "check" THEN Append(out, Line("PING", <<>>)) ELSE out
               ELSE Leave(how) /\ UNCHANGED <<transmit_count, out>>
    /\ UNCHANGED <<config, handlers, start, now, ALARM, INT, intr, stats, res,
                   n_foreign, overlap, recv_after_int, calc>>

\* Lines 136-141: the continuation test.
Check ==
    /\ pc = "check"
    /\ pc' = IF INT \/ ~Cont THEN "summary" ELSE "alarm_load"
    /\ UNCHANGED <<config, ret, handlers, timer, start, now, ALARM, INT, intr,
                   transmit_count, stats, res, pending, n_foreign, sendLog,
                   n_sent, out,
                   overlap, recv_after_int, calc>>

\* A loop that sends a probe whether or not the timer has fired.
AlarmLoadAlways ==
    /\ pc = "alarm_load"
    /\ pc' = "alarm_store"
    /\ intr' = FALSE
    /\ UNCHANGED <<config, ret, handlers, timer, start, now, ALARM, INT,
                   transmit_count, stats, res, pending, n_foreign, sendLog,
                   n_sent, out, overlap, recv_after_int, calc>>

\* Line 144: ALARM.load.  Without a pending expiry the loop goes on to
\* recvmsg.
AlarmLoad ==
    /\ pc = "alarm_load"
    /\ pc' = IF ALARM THEN "alarm_store" ELSE "recv"
    /\ intr' = FALSE
    /\ UNCHANGED <<config, ret, handlers, timer, start, now, ALARM, INT,
                   transmit_count, stats, res, pending, n_foreign, sendLog,
                   n_sent, out,
                   overlap, recv_after_int, calc>>

\* A clear that resets both flags.
AlarmStoreBoth ==
    /\ pc = "alarm_store"
    /\ ALARM' = FALSE
    /\ INT' = FALSE
    /\ pc' = "send"
    /\ UNCHANGED <<config, ret, handlers, timer, start, now, intr,
                   transmit_count, stats, res, pending, n_foreign, sendLog,
                   n_sent, out, overlap, recv_after_int, calc>>

\* Line 146: ALARM.store(false).
AlarmStore ==
    /\ pc = "alarm_store"
    /\ ALARM' = FALSE
    /\ pc' = "send"
    /\ UNCHANGED <<config, ret, handlers, timer, start, now, INT, intr,
                   transmit_count, stats, res, pending, n_foreign, sendLog,
                   n_sent, out,
                   overlap, recv_after_int, calc>>

\* Lines 148-149: the next probe.
Send ==
    /\ pc = "send"
    /\ \E raw \in RawSend :
        /\ Sent(raw)
        /\ LET how == LaterProbe(SendPacket(raw))
           IN  IF how = "go"
               THEN Counted("recv")
               ELSE Leave(how) /\ UNCHANGED transmit_count
    /\ overlap' = (overlap \/ receive_count < transmit_count)
    /\ intr' = FALSE
    /\ UNCHANGED <<config, handlers, start, now, ALARM, INT, stats, res,
                   n_foreign, out, recv_after_int, calc>>

\* A recvmsg call has returned: one more since the stop request, if any.
Returned == recv_after_int' = IF INT THEN recv_after_int + 1 ELSE recv_after_int

\* Lines 152-154: recvmsg returns the reply to one of the probes.
RecvReply ==
    /\ pc = "recv"
    /\ ~intr
    /\ \E s \in pending :
        /\ res' = Some(Reply(s))
        /\ pending' = pending \ {s}
    /\ pc' = "parse"
    /\ Returned
    /\ UNCHANGED <<config, ret, handlers, timer, start, now, ALARM, INT, intr,
                   transmit_count, stats, n_foreign, sendLog,
                   n_sent, out, overlap, calc>>

\* Lines 152-154: recvmsg returns a datagram that answers no probe.
RecvForeign ==
    /\ pc = "recv"
    /\ ~intr
    /\ n_foreign < MaxForeign
    /\ \E d \in Foreign : res' = Some(d)
    /\ n_foreign' = n_foreign + 1
    /\ pc' = "parse"
    /\ Returned
    /\ UNCHANGED <<config, ret, handlers, timer, start, now, ALARM, INT, intr,
                   transmit_count, stats, pending, sendLog,
                   n_sent, out, overlap, calc>>

\* A loop that returns an interruption like any other receive error.
RecvFailureFatal(kind) == "err"

\* Lines 155-158: what becomes of a failed recvmsg, by the kind of its error.
RecvFailure(kind) == IF kind = "Interrupted" THEN "continue" ELSE "err"

\* Lines 155-158: the loop goes to its next iteration or the function
\* returns the error.
Failed(kind) ==
    LET how == RecvFailure(kind)
    IN  IF how = "continue"
        THEN pc' = "check" /\ UNCHANGED <<ret, timer>>
        ELSE Leave(how)

\* Line 156: recvmsg was interrupted by a signal: continue.
RecvInterrupted ==
    /\ pc = "recv"
    /\ intr
    /\ intr' = FALSE
    /\ Failed("Interrupted")
    /\ Returned
    /\ UNCHANGED <<config, handlers, start, now, ALARM, INT,
                   transmit_count, stats, res, pending, n_foreign, sendLog,
                   n_sent, out,
                   overlap, calc>>

\* Line 157: recvmsg failed with another error: return Err(e).
RecvErr ==
    /\ pc = "recv"
    /\ ~intr
    /\ Failed("Other")
    /\ Returned
    /\ UNCHANGED <<config, handlers, start, now, ALARM, INT, intr,
                   transmit_count, stats, res, pending, n_foreign, sendLog,
                   n_sent, out,
                   overlap, calc>>

\* A loop that takes every datagram for a reply.
CheckedLoose(d) == Some([seq |-> d.seq])

\* Line 161: only a datagram packet::parse accepts is looked at further.
Checked(d) == parse(d)

\* Lines 160-175: the datagram is parsed; a reply is printed and recorded.
Parse ==
    /\ pc = "parse"
    /\ LET pack == Checked(Get(res))
       IN  IF pack = None
           THEN /\ pc' = "check"
                /\ UNCHANGED <<ret, timer, stats, out>>
           ELSE LET delta == Delta(now, Get(pack).seq)
                    acc == Record(min_delta, max_delta, sum_delta,
                                  sum_squared_delta, delta)
                IN  /\ out' = Append(out, Line("reply", <<Get(pack).seq, delta>>))
                    /\ \E v \in Inc16(receive_count) :
                        IF v = None
                        THEN /\ Leave("panic")
                             /\ UNCHANGED stats
                        ELSE /\ receive_count' = Get(v)
                             /\ min_delta' = acc.min
                             /\ max_delta' = acc.max
                             /\ sum_delta' = acc.sum
                             /\ sum_squared_delta' = acc.sq
                             /\ pc' = "check"
                             /\ UNCHANGED <<ret, timer>>
    /\ res' = None
    /\ UNCHANGED <<config, handlers, start, now, ALARM, INT, intr,
                   transmit_count, pending, n_foreign, sendLog, n_sent, overlap,
                   recv_after_int, calc>>

\* Lines 178-206: the summary block, then Ok(()).
Report ==
    /\ pc = "summary"
    /\ \E pct \in LossPercentage(LossCount(transmit_count, receive_count),
                                 transmit_count) :
        IF pct = None
        THEN Leave("panic") /\ UNCHANGED out
        ELSE /\ out' = out \o SummaryLines(transmit_count, receive_count, Get(pct),
                                           now - start, min_delta, max_delta,
                                           sum_delta, sum_squared_delta)
             /\ Leave("ok")
    /\ UNCHANGED <<config, handlers, start, now, ALARM, INT, intr,
                   transmit_count, stats, res, pending, n_foreign, sendLog,
                   n_sent,
                   overlap, recv_after_int, calc>>

Next ==
    \/ Tick
    \/ SigInt
    \/ Resolve
    \/ Sigaction
    \/ StartTimer
    \/ Send0
    \/ Check
    \/ AlarmLoad
    \/ AlarmStore
    \/ Send
    \/ RecvReply
    \/ RecvForeign
    \/ RecvInterrupted
    \/ RecvErr
    \/ Parse
    \/ Report

Spec == Init /\ [][Next]_vars

\* ------------------------------------------------------------ the summary arithmetic alone
\* The session has not started; only lines 180-185 are applied, to counts the
\* two u16 counters may hold when the summary is computed.
Counts16 == {1, 2, 3, 4, 5, 100, 655, 656, 1000, 32768, U16Max}

InitLoss ==
    /\ count = None
    /\ interval = 1
    /\ deadline = None
    /\ pc = "resolve"
    /\ ret = "running"
    /\ handlers = FALSE
    /\ timer = "none"
    /\ start = 0
    /\ now = 0
    /\ ALARM = FALSE
    /\ INT = FALSE
    /\ intr = FALSE
    /\ transmit_count = 0
    /\ receive_count = 0
    /\ min_delta = U128Max
    /\ max_delta = 0
    /\ sum_delta = 0
    /\ sum_squared_delta = 0
    /\ res = None
    /\ pending = {}
    /\ n_foreign = 0
    /\ sendLog = <<>>
    /\ n_sent = 0
    /\ out = <<>>
    /\ overlap = FALSE
    /\ recv_after_int = 0
    /\ \E tx \in Counts16, rx \in Counts16 \cup {0} :
        calc = [at |-> "counts", tx |-> tx, rx |-> rx, loss |-> 0, pct |-> None]

\* Lines 180-185 applied to the counts drawn.
Summarise ==
    /\ calc.at = "counts"
    /\ \E pct \in LossPercentage(LossCount(calc.tx, calc.rx), calc.tx) :
        calc' = [calc EXCEPT !.at = "summary",
                             !.loss = LossCount(calc.tx, calc.rx),
                             !.pct = pct]
    /\ UNCHANGED <<config, pc, ret, handlers, timer, start, now, ALARM, INT,
                   intr, transmit_count, stats, res, pending, n_foreign,
                   sendLog, n_sent, out, overlap, recv_after_int>>

NextLoss == Summarise

SpecLoss == InitLoss /\ [][NextLoss]_vars

\* ------------------------------------------------------------ a long session
\* The number of send_packet calls the log goes back.
LogDepth == MaxTime

\* The last LogDepth of c sends to an unreachable network.
LastSends(c) ==
    [i \in 1..Min(c, LogDepth) |->
        [seq |-> Max(c - LogDepth, 0) + i - 1, raw |-> "NetworkUnreachable"]]

\* The session as it stands after c probes, sent one per interval of one tick
\* to an unreachable network (each send swallowed by send_packet), when the
\* c-th expiry has just interrupted the receive.  Of the history only the
\* number of sends and the last LogDepth entries of the log are kept.
SessionAfter(c) ==
    /\ count = None
    /\ interval = 1
    /\ deadline = None
    /\ pc = "recv"
    /\ ret = "running"
    /\ handlers = TRUE
    /\ timer = "armed"
    /\ start = 0
    /\ now = c
    /\ ALARM = TRUE
    /\ INT = FALSE
    /\ intr = TRUE
    /\ transmit_count = c
    /\ receive_count = 0
    /\ min_delta = U128Max
    /\ max_delta = 0
    /\ sum_delta = 0
    /\ sum_squared_delta = 0
    /\ res = None
    /\ pending = {}
    /\ n_foreign = 0
    /\ sendLog = LastSends(c)
    /\ n_sent = c
    /\ out = <<Line("PING", <<>>)>>
    /\ overlap = TRUE
    /\ recv_after_int = 0
    /\ calc = IdleCalc

\* Probe counts at the end of the 16-bit range.
WrapCounts == {U16Max - 2, U16Max - 1, U16Max}

InitWrap == \E c \in WrapCounts : SessionAfter(c)

\* The loop from there on; the clock of the model has stopped and nothing
\* arrives but replies to the probes.
NextWrap ==
    \/ SigInt
    \/ Check
    \/ AlarmLoad
    \/ AlarmStore
    \/ Send
    \/ RecvReply
    \/ RecvInterrupted
    \/ RecvErr
    \/ Parse
    \/ Report

SpecWrap == InitWrap /\ [][NextWrap]_vars

\* ------------------------------------------------------------ progress
\* The steps the thread running ping() takes by itself.
Steps ==
    \/ Resolve
    \/ Sigaction
    \/ StartTimer
    \/ Send0
    \/ Check
    \/ AlarmLoad
    \/ AlarmStore
    \/ Send
    \/ RecvInterrupted
    \/ Parse
    \/ Report

\* The session in an environment where recvmsg returns replies to the probes
\* or is interrupted, and nothing else.
InitLive == Init /\ deadline = None

NextLive ==
    \/ Tick
    \/ SigInt
    \/ Steps
    \/ RecvReply

\* The thread is scheduled as long as it can run; the clock advances and the
\* armed timer fires; the reply to a probe in flight is delivered to a
\* recvmsg call that stays blocked.
FairLive ==
    /\ WF_vars(Steps)
    /\ WF_vars(Tick)
    /\ WF_vars(RecvReply)

SpecLive == InitLive /\ [][NextLive]_vars /\ FairLive

\* ------------------------------------------------------------ properties
\* Every probe so far was taken by the network (write_ping returned Ok).
AllTaken == \A i \in 1..Len(sendLog) : sendLog[i].raw = "Ok"

\* The session ended normally on its reply-count limit, every probe was
\* taken by the network, and nothing but replies to the probes arrived.
CountBoundedRun ==
    /\ pc = "done"
    /\ ret = "ok"
    /\ count # None
    /\ ~INT
    /\ n_foreign = 0
    /\ AllTaken

\* C1, as stated: with a reply-count limit N and every probe answered by one
\* valid reply, exactly N probes are sent, whatever the interleaving of timer
\* expiries and reply arrivals.
C1_ExactlyN == CountBoundedRun => transmit_count = Get(count)

\* C1, amended: with a reply-count limit N and every probe answered by one
\* valid reply, the loop is left once N replies were received, at least N
\* probes having been sent, and exactly N when no probe was sent while an
\* earlier one was still unanswered; no probe is sent once N replies were
\* counted.
C1_CountBounded ==
    /\ CountBoundedRun =>
        /\ receive_count = Get(count)
        /\ transmit_count >= Get(count)
        /\ ~overlap => transmit_count = Get(count)
    /\ (count # None /\ pc \in {"alarm_load", "alarm_store", "send"}) =>
        receive_count < Get(count)

C1_Witness ==
    /\ CountBoundedRun
    /\ ~overlap
    /\ Get(count) = 2
    /\ transmit_count = 2

\* C2: once the stop flag is set, at most one more recvmsg call returns
\* before the loop is left, and the summary is then printed.
C2_StopThenSummary ==
    /\ recv_after_int <= 1
    /\ (pc = "done" /\ INT /\ Printed("PING")) => Printed("stats")

\* The continuation condition the specification asks for.
ContWithDeadline ==
    /\ ~INT
    /\ Cont
    /\ deadline = None \/ now - start < Get(deadline)

\* C3: at the start of every iteration the loop continues exactly when no
\* stop was requested, the count limit is not reached and the deadline has
\* not passed.
C3_DeadlineEnforced ==
    [][(pc = "check" /\ pc' # "check") =>
        (pc' = "alarm_load" <=> ContWithDeadline)]_vars

\* C4: when the loop ends on a fatal receive or send error, the summary is
\* printed before the error is returned.
C4_FatalStillReports ==
    (pc = "done" /\ ret = "err" /\ Printed("PING")) => Printed("stats")

\* C5: a probe whose send fails with NetworkUnreachable is counted as
\* transmitted, the failure is not surfaced and the session goes on.
C5_TransientSwallowed ==
    [][(/\ Len(sendLog') = Len(sendLog) + 1
        /\ sendLog'[Len(sendLog')].raw = "NetworkUnreachable")
       => /\ transmit_count' = transmit_count + 1
          /\ ret' = "running"
          /\ pc' = IF pc = "send0" THEN "check" ELSE "recv"]_vars

C5_Witness ==
    /\ Len(sendLog) = 2
    /\ sendLog[1].raw = "NetworkUnreachable"
    /\ sendLog[2].raw = "NetworkUnreachable"
    /\ transmit_count = 2
    /\ pc = "recv"

\* C6: permission denied on probe #0 ends the session at once through
\* exit(1), an ending no other failure has: no further probe, no receive, no
\* PING line, no summary.
C6_ForbiddenFirst ==
    /\ (Len(sendLog) >= 1 /\ sendLog[1].raw = "PermissionDenied") =>
        /\ pc = "done"
        /\ ret = "exit1"
        /\ Len(sendLog) = 1
        /\ transmit_count = 0
        /\ receive_count = 0
        /\ res = None
        /\ out = <<>>
    /\ ret = "exit1" => (Len(sendLog) = 1 /\ sendLog[1].raw = "PermissionDenied")

C6_Witness == ret = "exit1" /\ timer = "armed"

\* C7: a received datagram that does not decode changes neither
\* receive_count nor the accumulators and prints nothing; receive_count
\* grows, by one, only on a datagram that decodes.
C7_MalformedDiscarded ==
    [][/\ (pc = "parse" /\ parse(Get(res)) = None) => UNCHANGED <<stats, out>>
       /\ receive_count' # receive_count =>
            /\ pc = "parse"
            /\ parse(Get(res)) # None
            /\ receive_count' = receive_count + 1]_vars

C7_Witness ==
    /\ n_foreign = 1
    /\ pc = "check"
    /\ res = None
    /\ receive_count = 0
    /\ out = <<Line("PING", <<>>)>>

\* C8: for all 16-bit counts with transmitted > 0, loss is
\* max(0, transmitted - received) and the percentage is
\* loss * 100 / transmitted, a value in 0..100.
C8_LossArithmetic ==
    calc.at = "summary" =>
        /\ calc.loss = Max(0, calc.tx - calc.rx)
        /\ calc.pct = Some((calc.loss * 100) \div calc.tx)
        /\ Get(calc.pct) \in 0..100

\* C9: the sequence numbers handed to send are 0, 1, 2, ... in this order,
\* each once, and transmit_count counts the probes sent.
C9_SequenceInvariant ==
    /\ \A i \in 1..Len(sendLog) : sendLog[i].seq = i - 1
    /\ transmit_count =
        Cardinality({i \in 1..Len(sendLog) :
                        sendLog[i].raw \in {"Ok", "NetworkUnreachable"}})
    /\ Len(sendLog) # transmit_count =>
        /\ Len(sendLog) = transmit_count + 1
        /\ pc = "done"
        /\ ret \in {"err", "exit1"}

C9_Witness == transmit_count = 3 /\ Len(sendLog) = 3 /\ ret = "running"

\* The round-trip samples of the replies accepted so far, from the reply
\* lines printed.
Samples ==
    LET lines == SelectSeq(out, LAMBDA l : l.line = "reply")
    IN  [i \in 1..Len(lines) |-> lines[i].v[2]]

RECURSIVE SeqSum(_)
SeqSum(q) == IF q = <<>> THEN 0 ELSE Head(q) + SeqSum(Tail(q))

Squares(q) == [i \in 1..Len(q) |-> q[i] * q[i]]
Least(q) == CHOOSE x \in {q[i] : i \in 1..Len(q)} : \A i \in 1..Len(q) : x <= q[i]
Greatest(q) == CHOOSE x \in {q[i] : i \in 1..Len(q)} : \A i \in 1..Len(q) : x >= q[i]

\* C10: after replies with samples r1..rk, receive_count = k and the
\* accumulators hold min, max, sum and sum of squares of the samples; the rtt
\* line is printed only when receive_count > 0 and reports min, sum/received,
\* max and the square root of sum_of_squares/received.
C10_Statistics ==
    LET r == Samples
        k == Len(r)
    IN  /\ receive_count = k
        /\ sum_delta = SeqSum(r)
        /\ sum_squared_delta = SeqSum(Squares(r))
        /\ k > 0 => (min_delta = Least(r) /\ max_delta = Greatest(r))
        /\ k = 0 => (min_delta = U128Max /\ max_delta = 0)
        /\ Printed("rtt") <=> (Printed("stats") /\ k > 0)
        /\ Printed("rtt") =>
            out[Len(out)] = Line("rtt", [min |-> Least(r),
                                         avg |-> <<SeqSum(r), k>>,
                                         max |-> Greatest(r),
                                         mdev_squared |-> <<SeqSum(Squares(r)), k>>])

C10_Witness ==
    /\ Printed("rtt")
    /\ receive_count >= 2
    /\ min_delta < max_delta

\* C11: when recvmsg returns Interrupted the loop starts its next iteration;
\* transmit_count, receive_count, the accumulators, both flags and the
\* output are as they were, and the session is not ended.
C11_InterruptedContinues ==
    [][(pc = "recv" /\ intr /\ pc' # "recv") =>
        /\ pc' = "check"
        /\ ret' = "running"
        /\ UNCHANGED <<transmit_count, stats, ALARM, INT, out, timer>>]_vars

\* A receive was interrupted after the stop request and nothing else was
\* received: the loop is at its continuation test again.
C11_Witness ==
    /\ pc = "check"
    /\ ret = "running"
    /\ INT
    /\ recv_after_int = 1
    /\ n_foreign = 0
    /\ receive_count = 0
    /\ transmit_count = 2

\* C12: on every way out of the session after the interval timer was
\* started, the timer handle has been released when the session is over.
C12_TimerReleased == (pc = "done" /\ timer # "none") => timer = "dropped"

\* A step in which the interval timer expires.
Expiry == timer = "armed" /\ now' = now + 1 /\ (now' - start) % interval = 0

\* C13: the loop's read and clear of the timer flag are one atomic step for
\* the alarm handler: no expiry falls between the read and the clear, so the
\* clear never erases an expiry that no read has observed.
C13_AtomicConsume == [][pc = "alarm_store" => ~Expiry]_vars

\* C14: the signal handlers are installed before the interval timer is
\* armed and the timer is armed before probe #0 is sent, so no expiry meets
\* a missing handler.
C14_InitOrdering ==
    /\ timer # "none" => handlers
    /\ Len(sendLog) > 0 => timer # "none"
    /\ ret # "killed"

\* The timer has expired before probe #0 and its handler has set the flag.
C14_Witness ==
    /\ pc = "send0"
    /\ sendLog = <<>>
    /\ timer = "armed"
    /\ handlers
    /\ ALARM

\* A session of the shape SessionAfter describes is reached from the start.
SessionAfterReached == SessionAfter(MaxTime)

\* C15: the n-th probe (0-based) carries sequence number n mod 2^16, and
\* after it the session goes on with the counter at (n + 1) mod 2^16, so the
\* probe after sequence 65535 carries 0.
C15_SequenceWraps ==
    [][n_sent' = n_sent + 1 =>
        LET n == n_sent
            sent == sendLog'[Len(sendLog')]
        IN  /\ sent.seq = n % (U16Max + 1)
            /\ SendPacket(sent.raw) = "Ok" =>
                /\ ret' = "running"
                /\ transmit_count' = (n + 1) % (U16Max + 1)]_vars

\* C16: once the stop flag is set no step resets it; it is set by
\* int_handler alone, never by a step of the loop, and a step that changes
\* one of the two flags leaves the other as it was.
C16_StopSticky ==
    [][/\ INT => INT'
       /\ INT' # INT => (pc' = pc /\ ALARM' = ALARM)
       /\ ALARM' # ALARM => INT' = INT]_vars

\* The loop has read a stop flag set while the timer flag was set too.
C16_Witness ==
    /\ pc = "summary"
    /\ INT
    /\ ALARM
    /\ recv_after_int = 1

\* C17: every reply that is printed and counted carries the sequence number
\* of a probe already sent: it is below transmit_count when the reply is
\* accepted.
C17_RepliesCorrelate ==
    [][(pc = "parse" /\ Checked(Get(res)) # None /\ pc' # "parse") =>
        Get(Checked(Get(res))).seq < transmit_count]_vars

\* The number of timer expiries so far.
Expiries == IF timer = "none" THEN 0 ELSE (now - start) \div interval

\* C18: apart from probe #0 a probe is sent only in an iteration that found
\* the timer flag set and cleared it, one probe at most per iteration: the
\* probes sent never exceed 1 + the expiries so far, and none is sent once
\* the continuation test has failed.
C18_Pacing ==
    /\ [](/\ transmit_count <= n_sent
          /\ n_sent <= 1 + Expiries
          /\ pc = "send" => n_sent <= Expiries)
    /\ [][n_sent' # n_sent =>
            (n_sent' = n_sent + 1 /\ pc \in {"send0", "send"})]_vars
    /\ [][(pc' = "send" /\ pc # "send") =>
            (pc = "alarm_store" /\ ALARM /\ ~ALARM')]_vars
    /\ [][(pc = "summary" \/ pc = "done") => n_sent' = n_sent]_vars

\* Two expiries were coalesced: fewer probes than expiries allow.
C18_Witness ==
    /\ pc = "recv"
    /\ Expiries = 2
    /\ n_sent = 2
    /\ transmit_count = 2

\* C19: whenever the summary is computed transmit_count is at least 1, so
\* the division by transmit_count is defined.
C19_SummaryDefined == pc = "summary" => transmit_count >= 1

\* The function has returned Ok(()) after the summary.
ReturnedOk == pc = "done" /\ ret = "ok" /\ Printed("stats")

\* The session was ended by a failure: the address did not parse or a send
\* failed.
Broken == ret \in {"err", "exit1", "panic"}

\* The clock of the model has stopped while recvmsg is blocked with no
\* reply in flight: only a further expiry could wake it.
Starved == now = MaxTime /\ pc = "recv" /\ ~intr /\ pending = {}

\* C20: with a reply-count limit N, if the timer keeps firing and every
\* probe is answered by a valid reply, the session reaches the summary and
\* returns with receive_count = N; with no limit, once a stop request is
\* delivered the session reaches the summary and returns.
C20_Termination ==
    /\ count # None =>
        <>(\/ ReturnedOk /\ count # None /\ receive_count = Get(count)
           \/ INT
           \/ Broken
           \/ ~AllTaken
           \/ Starved /\ count # None /\ receive_count < Get(count))
    /\ (count = None /\ INT) ~> (ReturnedOk \/ Broken \/ Starved)

\* A session with limit 2 has returned after two answered probes and no
\* stop request.
C20_Witness ==
    /\ ReturnedOk
    /\ count = Some(2)
    /\ receive_count = 2
    /\ ~INT
    /\ AllTaken

====
